---- MODULE Spec2Model ----
(***************************************************************************)
(* Brand demo query API (src/api/query.py): one POST request through the  *)
(* multi-query research pipeline.  The request-handling thread runs        *)
(* do_POST; the sub-question units run on a ThreadPoolExecutor.  The       *)
(* profile store and the text-generation backend are the environment:     *)
(* every action draws what they return from a small set.                  *)
(***************************************************************************)
EXTENDS Integers, Sequences, FiniteSets, TLC

\* ------------------------------------------------------------------ bounds
\* largest sub-question list the decomposition backend returns (the
\* fallback decomposition of lines 218-222 always returns three)
MaxSubQ == 2
\* largest number of active profiles the store returns
MaxProfiles == 2
\* largest key_insights list the synthesis backend returns
MaxInsights == 4
\* longest sub-question list handed to the orchestrator called on its own
MaxPoolSubQ == 4
\* largest number of active profiles handed to the selector called on its own
MaxRows == 11
\* largest panel handed to _query_multiple_twins called on its own
MaxTwins == 11
\* largest batch handed to _query_batch_of_twins called on its own, and the
\* longest list of answers the backend returns for it
MaxBatch == 2
MaxAnswers == 3
\* longest list of persona responses handed to the analyzer called on its own
MaxResponses == 2
\* longest list of survey results handed to the synthesizer called on its own
MaxResults == 4

\* ------------------------------------------------------- program constants
\* a slip: a pool one worker wider
max_workers_plus_one == 3 + 1

max_workers == 3
BATCH_SIZE == 10
InspectLimit == 10
PanelCap == 5
FallbackCap == 5
InsightCap == 3
DigestCap == 3

\* ----------------------------------------------------------------- helpers
Min(a, b) == IF a < b THEN a ELSE b

\* Python's None, as a value that can sit in a list of dicts
None == [isNone |-> TRUE]

\* d.get(k, default) and "k in d" on a dict
Has(d, k) == k \in DOMAIN d
Get(d, k, default) == IF Has(d, k) THEN d[k] ELSE default

\* s[:n]
Take(s, n) == SubSeq(s, 1, Min(n, Len(s)))

RECURSIVE SumSeq(_)
SumSeq(s) == IF s = <<>> THEN 0 ELSE Head(s) + SumSeq(Tail(s))

\* the text of the research question of the request
Query == "q"

\* ------------------------------------------------------- Profile selector
\* A profile record of the store: profile_id (0 stands for a missing or
\* null identifier) and what its profile_data attribute bag is:
\*   "food"  a dict containing one of the recognised sections
\*   "other" a dict containing none of them
\*   "null"  the key is present with a null value
ProfileBags == {"food", "other", "null"}

has_food_data(profile) == profile.bag = "food"

\* a slip: the scan goes on after the fifth identifier
RECURSIVE scan_profiles_without_break(_, _)
scan_profiles_without_break(profiles, profile_ids) ==
  IF profiles = <<>> THEN profile_ids
  ELSE scan_profiles_without_break(
         Tail(profiles),
         IF has_food_data(Head(profiles))
         THEN Append(profile_ids, Head(profiles).profile_id)
         ELSE profile_ids)

\* the loop of lines 135-151: scan the first ten, stop at five ids
RECURSIVE scan_profiles(_, _)
scan_profiles(profiles, profile_ids) ==
  IF profiles = <<>> THEN profile_ids
  ELSE LET p == Head(profiles)
           ids == IF has_food_data(p) THEN Append(profile_ids, p.profile_id)
                  ELSE profile_ids
       IN IF Len(ids) >= PanelCap THEN ids
          ELSE scan_profiles(Tail(profiles), ids)

\* TRUE when the scan reaches a record whose attribute bag is null: the
\* membership test raises and the selector's except returns []
RECURSIVE scan_raises(_, _)
scan_raises(profiles, n) ==
  IF profiles = <<>> THEN FALSE
  ELSE LET p == Head(profiles)
       IN IF p.bag = "null" THEN TRUE
          ELSE LET m == IF has_food_data(p) THEN n + 1 ELSE n
               IN IF m >= PanelCap THEN FALSE
                  ELSE scan_raises(Tail(profiles), m)

\* a slip: the identifiers are not filtered
all_ids(profiles) == [i \in 1..Len(profiles) |-> profiles[i].profile_id]

\* [p.get('profile_id') for p in profiles if p.get('profile_id')]
RECURSIVE present_ids(_)
present_ids(profiles) ==
  IF profiles = <<>> THEN <<>>
  ELSE LET p == Head(profiles)
           rest == present_ids(Tail(profiles))
       IN IF p.profile_id # 0 THEN <<p.profile_id>> \o rest ELSE rest

\* a slip: a record whose attribute bag is null is skipped
get_relevant_profile_ids_skipping_null(st) ==
  LET rows == IF st.raises THEN <<>> ELSE Take(st.rows, InspectLimit)
      keep == SelectSeq(rows, LAMBDA p : p.bag = "food")
  IN [i \in 1..Min(PanelCap, Len(keep)) |-> keep[i].profile_id]

\* store: [raises |-> BOOLEAN, rows |-> sequence of profile records]
get_active_profiles(store) == IF store.raises THEN <<>> ELSE store.rows

get_relevant_profile_ids(store) ==
  LET all_profiles == get_active_profiles(store)
      inspected == Take(all_profiles, InspectLimit)
  IN IF all_profiles = <<>> THEN <<>>
     ELSE IF scan_raises(inspected, 0) THEN <<>>
     ELSE LET profile_ids == scan_profiles(inspected, <<>>)
          IN IF profile_ids = <<>>
             THEN present_ids(Take(all_profiles, FallbackCap))
             ELSE profile_ids

\* what the store returns to get_active_profiles in a request: a failure,
\* or up to MaxProfiles rows of one kind whose ids are their positions
Rows(n, bag) == [i \in 1..n |-> [profile_id |-> i, bag |-> bag]]

\* rows whose last record has a null attribute bag, after qualifying ones
NullLast(n) ==
  [i \in 1..n |-> [profile_id |-> i, bag |-> IF i = n THEN "null" ELSE "food"]]

StoreOutcomes ==
  {[raises |-> TRUE, rows |-> <<>>]} \cup
  {[raises |-> FALSE, rows |-> Rows(n, b)] :
     n \in 0..MaxProfiles, b \in ProfileBags} \cup
  {[raises |-> FALSE, rows |-> NullLast(n)] : n \in 2..MaxProfiles}

\* how _get_relevant_profile_ids ended: the store call failed (line 147 of
\* supabase.py returns []), there was no active profile (line 132), a
\* record made the scan raise (line 161), or a panel was returned (line 157)
selected_by(st) ==
  IF st.raises THEN "store_failed"
  ELSE IF st.rows = <<>> THEN "no_profiles"
  ELSE IF scan_raises(Take(st.rows, InspectLimit), 0) THEN "malformed"
  ELSE "selected"

\* ---------------------------------------------------- Question decomposer
\* Sub-questions are dicts: a record whose DOMAIN is the set of its keys.
\* The backend's i-th sub-question, in the three shapes its JSON can have.
BackendQuestions ==
  << <<"backend question", "1">>, <<"backend question", "2">>,
     <<"backend question", "3">>, <<"backend question", "4">>,
     <<"backend question", "5">> >>
BackendTypes == <<"pricing", "barriers", "usage", "concerns", "preferences">>
SubQShapes == {"full", "no_type", "no_question"}

BackendSubQ(i, shape) ==
  CASE shape = "full" ->
         [question |-> BackendQuestions[i], insight_type |-> BackendTypes[i]]
    [] shape = "no_type" -> [question |-> BackendQuestions[i]]
    [] shape = "no_question" -> [insight_type |-> BackendTypes[i]]

\* the fallback templates of lines 218-222, built from the question text
FallbackSubQuestions(query) ==
  << [question |-> <<"What are your preferences regarding", query>>,
      insight_type |-> "preferences"],
     [question |-> <<"What concerns do you have about", query>>,
      insight_type |-> "concerns"],
     [question |-> <<"How would you rate your interest in", query>>,
      insight_type |-> "usage"] >>

\* What the decomposition call can do:
\*   raise        messages.create raises
\*   unparseable  json.loads raises on the text
\*   nondict      the JSON is a list or a scalar: result.get raises
\*   nokey        a dict without 'sub_questions'
\*   null         a dict whose 'sub_questions' is null
\*   list         a dict whose 'sub_questions' is the list given by shapes
\* the lists drawn: up to n sub-questions, all of them full or all but one
ShapeLists(n) ==
  {[i \in 1..k |-> "full"] : k \in 0..n} \cup
  UNION {{[i \in 1..k |-> IF i = j THEN sh ELSE "full"] :
            j \in 1..k, sh \in SubQShapes \ {"full"}} : k \in 1..n}

DecomposeOutcomes ==
  {[kind |-> k, shapes |-> <<>>] :
     k \in {"raise", "unparseable", "nondict", "nokey", "null"}} \cup
  {[kind |-> "list", shapes |-> s] : s \in ShapeLists(MaxSubQ)}

DecomposeFails(out) == out.kind \in {"raise", "unparseable", "nondict"}

\* the value returned by _decompose_research_question; None for a null list
decompose_research_question(query, out) ==
  CASE DecomposeFails(out) -> FallbackSubQuestions(query)
    [] out.kind = "nokey" -> <<>>
    [] out.kind = "null" -> None
    [] out.kind = "list" ->
         [i \in 1..Len(out.shapes) |-> BackendSubQ(i, out.shapes[i])]

\* ------------------------------------------------- Persona batch responder
\* get_profile_version(id): the record found, or None
VersionKinds == {"absent", "named"}
PersonNames == <<"n1", "n2", "n3", "n4", "n5", "n6", "n7", "n8", "n9",
                 "n10", "n11", "n12", "n13">>

\* lines 264-272: the loaded profiles, in panel order
RECURSIVE load_profiles(_, _)
load_profiles(profile_ids, versions) ==
  IF profile_ids = <<>> THEN <<>>
  ELSE LET rest == load_profiles(Tail(profile_ids), Tail(versions))
       IN CASE Head(versions) = "absent" -> rest
            [] Head(versions) = "named" ->
                 <<[profile_id |-> Head(profile_ids),
                    person_name |-> PersonNames[Head(profile_ids)]]>> \o rest
            [] Head(versions) = "unnamed" ->
                 <<[profile_id |-> Head(profile_ids),
                    person_name |-> "Unknown"]>> \o rest

\* One answer of the backend's 'responses' list.  pn is the type of its
\* person_number and num its value:
\*   int      the integer num
\*   bool     JSON true (num = 1) or false (num = 0), an int in Python
\*   float    the float num / 2 (1.0 is num = 2, 3.5 is num = 7)
\*   missing  no person_number: the default 0 is taken
\*   str      a string, null, list or object
\* text tells whether the answer has a 'response' key.
Answer(pn, num, text) == [pn |-> pn, num |-> num, text |-> text]

\* lines 334-336 raise TypeError for this answer, in a batch of n: the
\* subtraction for a person_number that is not a number, the list index
\* for a float that passed the range test 0 <= num / 2 - 1 < n
answer_raises(resp, n) ==
  \/ resp.pn = "str"
  \/ resp.pn = "float" /\ 2 <= resp.num /\ resp.num < 2 * n + 2

\* a slip: person_number is taken as counted from 0
RECURSIVE map_answers_zero_based(_, _)
map_answers_zero_based(answers, profiles) ==
  IF answers = <<>> THEN <<>>
  ELSE LET resp == Head(answers)
           person_num == IF resp.pn \in {"int", "bool"} THEN resp.num ELSE 0
           rest == map_answers_zero_based(Tail(answers), profiles)
       IN IF resp.pn # "float" /\ 0 <= person_num
             /\ person_num < Len(profiles)
          THEN <<[profile_id |-> profiles[person_num + 1].profile_id,
                  person_name |-> profiles[person_num + 1].person_name,
                  response |-> IF resp.text THEN "answer"
                               ELSE "No response provided",
                  error |-> FALSE]>> \o rest
          ELSE rest

\* lines 333-342: the answers mapped back to their personas, when none of
\* them raises; a float that fails the range test is passed over
RECURSIVE map_answers(_, _)
map_answers(answers, profiles) ==
  IF answers = <<>> THEN <<>>
  ELSE LET resp == Head(answers)
           person_num ==
             (IF resp.pn \in {"int", "bool"} THEN resp.num ELSE 0) - 1
           rest == map_answers(Tail(answers), profiles)
       IN IF resp.pn # "float" /\ 0 <= person_num
             /\ person_num < Len(profiles)
          THEN <<[profile_id |-> profiles[person_num + 1].profile_id,
                  person_name |-> profiles[person_num + 1].person_name,
                  response |-> IF resp.text THEN "answer"
                               ELSE "No response provided",
                  error |-> FALSE]>> \o rest
          ELSE rest

\* lines 346-353: one error-flagged response per persona of the batch
error_responses(profiles) ==
  [i \in 1..Len(profiles) |->
     [profile_id |-> profiles[i].profile_id,
      person_name |-> profiles[i].person_name,
      response |-> "Error generating response",
      error |-> TRUE]]

\* What a batch call can do:
\*   raise / unparseable / nondict  as for the decomposer
\*   nokey    a dict without 'responses'
\*   answers  a dict whose 'responses' is the list of answers given
\* BatchFails: the try of lines 318-344 raises, for a batch of n
BatchFails(out, n) ==
  \/ out.kind \in {"raise", "unparseable", "nondict"}
  \/ /\ out.kind = "answers"
     /\ \E i \in 1..Len(out.answers) : answer_raises(out.answers[i], n)

\* a slip: the answers mapped before the failure are kept
query_batch_of_twins_keeping_mapped(profiles, out) ==
  IF BatchFails(out, Len(profiles))
  THEN LET bad == {i \in 1..Len(out.answers) :
                     answer_raises(out.answers[i], Len(profiles))}
           first == IF bad = {} THEN 1
                    ELSE CHOOSE i \in bad : \A j \in bad : i <= j
       IN map_answers(SubSeq(out.answers, 1, first - 1), profiles)
          \o error_responses(profiles)
  ELSE IF out.kind = "nokey" THEN <<>>
  ELSE map_answers(out.answers, profiles)

query_batch_of_twins(profiles, out) ==
  IF BatchFails(out, Len(profiles)) THEN error_responses(profiles)
  ELSE IF out.kind = "nokey" THEN <<>>
  ELSE map_answers(out.answers, profiles)

\* lines 274-280: the batches of BATCH_SIZE, one backend outcome per batch
RECURSIVE query_batches(_, _)
query_batches(loaded_profiles, outs) ==
  IF loaded_profiles = <<>> THEN <<>>
  ELSE LET n == Min(BATCH_SIZE, Len(loaded_profiles))
       IN query_batch_of_twins(SubSeq(loaded_profiles, 1, n), Head(outs))
          \o query_batches(SubSeq(loaded_profiles, n + 1, Len(loaded_profiles)),
                           Tail(outs))

\* number of batch calls made for a panel
BatchCount(n) == (n + BATCH_SIZE - 1) \div BATCH_SIZE

\* the backend's answers in the pipeline: every persona in order, only the
\* first persona, or one answer with a position past the batch
InOrder(n) == [i \in 1..n |-> Answer("int", i, TRUE)]

BatchOutcomes(n) ==
  {[kind |-> k, answers |-> <<>>] : k \in {"raise", "unparseable", "nokey"}}
  \cup {[kind |-> "answers", answers |-> a] :
          a \in {InOrder(n), InOrder(1), <<Answer("int", n + 1, TRUE)>>,
                 <<Answer("missing", 0, FALSE)>>}}

\* -------------------------------------------------------- Response analyzer
valid_responses(responses) ==
  LET keep == {i \in 1..Len(responses) : ~responses[i].error}
  IN Cardinality(keep)

DataPoint(c, pct) == [category |-> c, percentage |-> pct, description |-> "d"]
SomeDataPoints == <<DataPoint("c1", 60), DataPoint("c2", 40)>>

\* What the analysis call can do: fail as above, or return one of these
\* dicts (a full one with the confidence given, one without 'top_insight',
\* one without 'confidence')
ConfidenceValues == {40, 150}

AnalysisDicts ==
  {[top_insight |-> "finding", data_points |-> SomeDataPoints,
    confidence |-> c] : c \in ConfidenceValues} \cup
  {[data_points |-> SomeDataPoints, confidence |-> 40],
   [top_insight |-> "finding", data_points |-> SomeDataPoints]}

AnalysisOutcomes ==
  {[kind |-> k, dict |-> None] : k \in {"raise", "unparseable", "nondict"}}
  \cup {[kind |-> "dict", dict |-> d] : d \in AnalysisDicts}

AnalysisFails(out) == out.kind \in {"raise", "unparseable", "nondict"}

Degraded(sub_question, text) ==
  [question |-> sub_question.question,
   insight_type |-> sub_question.insight_type,
   top_insight |-> text, data_points |-> <<>>, confidence |-> 0]

WellFormed(sub_q) == Has(sub_q, "question") /\ Has(sub_q, "insight_type")

\* Every path of _analyze_survey_responses reads both keys of the
\* sub-question before it returns; a missing key raises KeyError outside
\* (lines 365-366, 379-380) or inside an except clause (lines 426-427).
analyze_raises(sub_question) == ~WellFormed(sub_question)

\* TRUE when the analyzer reaches messages.create
analyze_calls_backend(responses, sub_question) ==
  valid_responses(responses) > 0 /\ WellFormed(sub_question)

\* a slip: the failure of the call is reported as a lack of data
analyze_survey_responses_as_no_data(rs, sub_question, out) ==
  IF valid_responses(rs) = 0 \/ AnalysisFails(out)
  THEN Degraded(sub_question, "Insufficient data")
  ELSE ("question" :> sub_question.question
        @@ "insight_type" :> sub_question.insight_type) @@ out.dict

\* the value returned by _analyze_survey_responses when it does not raise
analyze_survey_responses(responses, sub_question, out) ==
  IF valid_responses(responses) = 0
  THEN Degraded(sub_question, "Insufficient data")
  ELSE IF AnalysisFails(out)
  THEN Degraded(sub_question, "Analysis temporarily unavailable")
  ELSE ("question" :> sub_question.question
        @@ "insight_type" :> sub_question.insight_type) @@ out.dict

\* -------------------------------------------------------- Insight synthesizer
\* lines 439-445 run outside the try: they read 'top_insight' and
\* 'data_points' of every result and 'category' and 'percentage' of its
\* first three data points
digest_raises(survey_results) ==
  \E i \in 1..Len(survey_results) :
     LET result == survey_results[i]
     IN \/ ~Has(result, "question")
        \/ ~Has(result, "top_insight")
        \/ ~Has(result, "data_points")
        \/ /\ Has(result, "data_points")
           /\ \E j \in 1..Min(DigestCap, Len(result.data_points)) :
                \/ ~Has(result.data_points[j], "category")
                \/ ~Has(result.data_points[j], "percentage")

Insights == <<"i1", "i2", "i3", "i4", "i5">>

\* What the synthesis call can do: fail as above, return a dict without
\* 'key_insights', or one whose 'key_insights' has n strings (none, the
\* three asked for, or as many as MaxInsights)
SynthOutcomes ==
  {[kind |-> k, n |-> 0] : k \in {"raise", "unparseable", "nondict", "nokey"}}
  \cup {[kind |-> "list", n |-> n] : n \in {0, InsightCap, MaxInsights}}

SynthFails(out) == out.kind \in {"raise", "unparseable", "nondict"}

\* a slip: every result's top_insight is used
fallback_insights_untruncated(survey_results) ==
  [i \in 1..Len(survey_results) |-> survey_results[i].top_insight]

\* line 486
fallback_insights(survey_results) ==
  LET firsts == Take(survey_results, InsightCap)
  IN [i \in 1..Len(firsts) |-> firsts[i].top_insight]

\* the value returned by _generate_overall_insights when it does not raise
generate_overall_insights(survey_results, out) ==
  CASE SynthFails(out) -> fallback_insights(survey_results)
    [] out.kind = "nokey" -> <<>>
    [] out.kind = "list" -> SubSeq(Insights, 1, out.n)

\* ------------------------------------------------------------------ do_POST
\* The request body: empty, not JSON, JSON that is not an object, or an
\* object whose product and question are absent, empty or a string
\* ("oats" passes the same checks as "pickles" and is not drawn)
Products == {"absent", "empty", "pickles", "soda"}
Questions == {"absent", "empty", Query}

Bodies ==
  {[kind |-> k, product |-> "absent", question |-> "absent"] :
     k \in {"empty", "invalid_json", "nonobject"}} \cup
  {[kind |-> "object", product |-> pr, question |-> qu] :
     pr \in Products, qu \in Questions}

\* the environment: which of the three credentials are set
Envs == [ANTHROPIC_API_KEY : BOOLEAN, SUPABASE_URL : BOOLEAN,
         SUPABASE_ANON_KEY : BOOLEAN]

Falsy(v) == v \in {"absent", "empty"}

\* a slip: only the key is checked
supabase_init_checks_key_only(e) == ~e.SUPABASE_ANON_KEY

\* SupabaseClient.__init__(use_service_role=False) raises
supabase_init_raises(env) == ~env.SUPABASE_ANON_KEY \/ ~env.SUPABASE_URL

\* how lines 22-47 end: "400", "500" (send_error), "raise" (the catch-all)
\* or "ok"
validate(body, env) ==
  CASE body.kind \in {"invalid_json", "nonobject"} -> "raise"
    [] body.kind = "empty" -> "400"
    [] body.kind = "object" ->
         IF Falsy(body.product) \/ Falsy(body.question) THEN "400"
         ELSE IF body.product \notin {"pickles", "oats"} THEN "400"
         ELSE IF ~env.ANTHROPIC_API_KEY THEN "500"
         ELSE IF supabase_init_raises(env) THEN "raise"
         ELSE "ok"

\* lines 488-502, as the pieces of the message
generate_fallback_message(product) ==
  <<"I apologize, but we don't have AI digital twin profiles available for",
    product, "at the moment">>

\* a slip: the counters of the full response are used
reduced_response_counting(product) ==
  [response |-> generate_fallback_message(product),
   profiles_analyzed |-> 1,
   product |-> product,
   total_twins_queried |-> 1,
   confidence |-> 0]

\* lines 53-59
reduced_response(product) ==
  [response |-> generate_fallback_message(product),
   profiles_analyzed |-> 0,
   product |-> product,
   total_twins_queried |-> 0,
   confidence |-> 0]

\* line 77
RECURSIVE confidences(_)
confidences(survey_results) ==
  IF survey_results = <<>> THEN <<>>
  ELSE <<Get(Head(survey_results), "confidence", 0)>>
       \o confidences(Tail(survey_results))

\* a slip: the average is rounded up
average_confidence_rounded_up(survey_results) ==
  IF survey_results # <<>>
  THEN (SumSeq(confidences(survey_results)) + Len(survey_results) - 1)
       \div Len(survey_results)
  ELSE 0

average_confidence(survey_results) ==
  IF survey_results # <<>>
  THEN SumSeq(confidences(survey_results)) \div Len(survey_results)
  ELSE 0

\* a slip: the counters count the results
full_response_counting_results(question, prod, ids, insights, survey_results) ==
  [query |-> question,
   product |-> prod,
   total_twins_queried |-> Len(survey_results),
   profiles_analyzed |-> Len(survey_results),
   confidence |-> average_confidence(survey_results),
   key_insights |-> insights,
   survey_results |-> survey_results,
   privacy_note |-> "Individual responses kept confidential"]

\* lines 80-89
full_response(question, product, ids, insights, survey_results) ==
  [query |-> question,
   product |-> product,
   total_twins_queried |-> Len(ids),
   profiles_analyzed |-> Len(ids),
   confidence |-> average_confidence(survey_results),
   key_insights |-> insights,
   survey_results |-> survey_results,
   privacy_note |-> "Individual responses kept confidential"]

\* lines 111-114
error_response ==
  [error |-> "exception",
   response |-> "I encountered an error processing your question"]

\* the page written by send_error
error_page(code) == [error_page |-> code]

\* ----------------------------------------------------------- state machine
VARIABLES
  pc,                  \* where the request-handling thread is in do_POST
  status,              \* HTTP status sent, 0 while none is
  response,            \* body sent, None while none is
  product,             \* data.get('product')
  profile_ids,         \* the selector's panel
  sub_questions,       \* the decomposer's list
  decomposition,       \* what the decomposition call did
  all_survey_results,  \* the pre-sized result slots
  unit,                \* each unit: unsubmitted, queued, running, done, collected
  future,              \* what each finished future holds
  writes,              \* how many times each slot was assigned
  out_of_order,        \* a future was yielded before an earlier-submitted one
  key_insights,        \* the synthesizer's list
  calls,               \* the collaborator operations called so far
  body,                \* the request body received
  env,                 \* the credentials set in the environment
  selection,           \* how the selector ended
  store,               \* what the store holds, in a direct call of the selector
  loaded_profiles,     \* _query_multiple_twins: the profiles loaded
  responses,           \* _query_multiple_twins: the responses so far
  batch_no,            \* _query_multiple_twins: batches processed
  failed,              \* _query_multiple_twins: batches whose call failed
  worker,              \* where each unit's worker is, and its locals
  args,                \* the arguments of a method called on its own
  backend,             \* what the backend call of that method did
  returned             \* what that method returned, or that it raised

vars == <<pc, status, response, product, profile_ids, sub_questions,
          decomposition, all_survey_results, unit, future, writes,
          out_of_order, key_insights, calls, body, env, selection, store,
          loaded_profiles, responses, batch_no, failed, worker, args,
          backend, returned>>

\* the locals of the methods that are also called on their own
direct == <<store, loaded_profiles, responses, batch_no, failed, args,
            backend, returned>>

\* the store operations and the four kinds of backend call
Operations == {"get_active_profiles", "get_profile_version",
               "decompose", "batch", "analysis", "synth"}
NoCalls == {}

Init ==
  /\ pc = "start"
  /\ status = 0
  /\ response = None
  /\ product = "absent"
  /\ profile_ids = <<>>
  /\ sub_questions = <<>>
  /\ decomposition = "none"
  /\ all_survey_results = <<>>
  /\ unit = <<>>
  /\ future = <<>>
  /\ writes = <<>>
  /\ out_of_order = FALSE
  /\ key_insights = <<>>
  /\ calls = NoCalls
  /\ body = None
  /\ env = None
  /\ selection = "none"
  /\ store = None
  /\ loaded_profiles = <<>>
  /\ responses = <<>>
  /\ batch_no = 0
  /\ failed = {}
  /\ worker = <<>>
  /\ args = None
  /\ backend = None
  /\ returned = None

pipeline == <<profile_ids, sub_questions, decomposition, all_survey_results,
              unit, future, writes, out_of_order, key_insights, worker>>

\* lines 101-115: the catch-all of do_POST
CatchAll ==
  /\ status' = 500
  /\ response' = error_response
  /\ pc' = "done"

\* lines 22-47
Validate ==
  /\ pc = "start"
  /\ \E b \in Bodies, e \in Envs :
       LET v == validate(b, e)
       IN /\ body' = b
          /\ env' = e
          /\ CASE v = "400" ->
                    /\ status' = 400
                    /\ response' = error_page(400)
                    /\ pc' = "done"
                    /\ UNCHANGED product
               [] v = "500" ->
                    /\ status' = 500
                    /\ response' = error_page(500)
                    /\ pc' = "done"
                    /\ UNCHANGED product
               [] v = "raise" -> CatchAll /\ UNCHANGED product
               [] v = "ok" ->
                    /\ pc' = "select"
                    /\ product' = b.product
                    /\ UNCHANGED <<status, response>>
  /\ UNCHANGED <<pipeline, calls, selection, direct>>

\* a slip: the pipeline is entered with an empty panel too
Select_without_empty_check ==
  /\ pc = "select"
  /\ \E st \in StoreOutcomes :
       /\ profile_ids' = get_relevant_profile_ids(st)
       /\ selection' = selected_by(st)
  /\ pc' = "decompose"
  /\ calls' = calls \cup {"get_active_profiles"}
  /\ UNCHANGED <<status, response, product, sub_questions, decomposition,
                 all_survey_results, unit, future, writes, out_of_order,
                 key_insights, body, env, worker,
                 direct>>

\* lines 48-59 and 91-99
Select ==
  /\ pc = "select"
  /\ \E st \in StoreOutcomes :
       LET ids == get_relevant_profile_ids(st)
       IN /\ profile_ids' = ids
          /\ selection' = selected_by(st)
          /\ IF ids = <<>>
             THEN /\ status' = 200
                  /\ response' = reduced_response(product)
                  /\ pc' = "done"
             ELSE /\ pc' = "decompose"
                  /\ UNCHANGED <<status, response>>
  /\ calls' = calls \cup {"get_active_profiles"}
  /\ UNCHANGED <<product, sub_questions, decomposition, all_survey_results,
                 unit, future, writes, out_of_order, key_insights, body, env,
                 worker,
                 direct>>

\* lines 63-64; len() of a null list raises
Decompose ==
  /\ pc = "decompose"
  /\ \E out \in DecomposeOutcomes :
       /\ decomposition' = out.kind
       /\ IF out.kind = "null"
          THEN CatchAll /\ UNCHANGED sub_questions
          ELSE /\ sub_questions' = decompose_research_question(Query, out)
               /\ pc' = "dispatch"
               /\ UNCHANGED <<status, response>>
  /\ calls' = calls \cup {"decompose"}
  /\ UNCHANGED <<product, profile_ids, all_survey_results, unit, future,
                 writes, out_of_order, key_insights, body, env, selection, worker,
                 direct>>

\* a worker's position in process_sub_question and the locals it holds:
\* idle (no unit running), start (before line 229), or waiting for the
\* reply of the store for the next-th identifier, of the batch_no-th batch
\* call, or of the analysis call
Idle == [at |-> "idle", next |-> 0, loaded |-> <<>>, responses |-> <<>>,
         batch_no |-> 0]
Waiting(at, next, loaded, rs, b) ==
  [at |-> at, next |-> next, loaded |-> loaded, responses |-> rs,
   batch_no |-> b]

\* lines 226 and 234: the slots are allocated and the executor is created;
\* no unit is submitted yet
Dispatch ==
  /\ pc = "dispatch"
  /\ all_survey_results' = [i \in 1..Len(sub_questions) |-> None]
  /\ unit' = [i \in 1..Len(sub_questions) |-> "unsubmitted"]
  /\ future' = [i \in 1..Len(sub_questions) |-> None]
  /\ writes' = [i \in 1..Len(sub_questions) |-> 0]
  /\ worker' = [i \in 1..Len(sub_questions) |-> Idle]
  /\ pc' = IF Len(sub_questions) = 0 THEN "collect" ELSE "submit"
  /\ UNCHANGED <<status, response, product, profile_ids, sub_questions,
                 decomposition, out_of_order, key_insights, calls, body, env,
                 selection, direct>>

\* lines 235-238: executor.submit of the next sub-question, in list order;
\* the workers run the units already submitted meanwhile, and after the
\* last submit the request thread enters the as_completed loop
Submit ==
  /\ pc = "submit"
  /\ \E i \in 1..Len(unit) :
       /\ unit[i] = "unsubmitted"
       /\ \A j \in 1..(i - 1) : unit[j] # "unsubmitted"
       /\ unit' = [unit EXCEPT ![i] = "queued"]
       /\ pc' = IF i = Len(unit) THEN "collect" ELSE "submit"
  /\ UNCHANGED <<status, response, product, profile_ids, sub_questions,
                 decomposition, all_survey_results, future, writes,
                 out_of_order, key_insights, calls, body, env, selection,
                 worker, direct>>

Running == {i \in 1..Len(unit) : unit[i] = "running"}

\* a free worker takes the oldest queued unit
UnitStart(i) ==
  /\ pc \in {"submit", "collect", "unwind"}
  /\ unit[i] = "queued"
  /\ \A j \in 1..(i - 1) : unit[j] # "queued"
  /\ Cardinality(Running) < max_workers
  /\ unit' = [unit EXCEPT ![i] = "running"]
  /\ worker' = [worker EXCEPT ![i] = Waiting("start", 0, <<>>, <<>>, 0)]
  /\ UNCHANGED <<pc, status, response, product, profile_ids, sub_questions,
                 decomposition, all_survey_results, future, writes,
                 out_of_order, key_insights, calls, body, env, selection,
                 direct>>

\* What a finished future holds: the exception or the returned pair,
\* whether the analyzer was entered and with how many valid responses
\* (0, or 1 for one or more)
Raised(analyzed, nvalid) ==
  [exc |-> TRUE, analyzed |-> analyzed, valid |-> Min(nvalid, 1)]
Returned(index, result, nvalid) ==
  [exc |-> FALSE, index |-> index, result |-> result,
   analyzed |-> TRUE, valid |-> Min(nvalid, 1)]

\* what a step of a unit leaves alone
unit_rest == <<pc, status, response, product, profile_ids, sub_questions,
               decomposition, all_survey_results, writes, out_of_order,
               key_insights, body, env, selection, direct>>

\* process_sub_question returns or raises: the future is set
UnitReturns(i, fut) ==
  /\ unit' = [unit EXCEPT ![i] = "done"]
  /\ future' = [future EXCEPT ![i] = fut]
  /\ worker' = [worker EXCEPT ![i] = Idle]
  /\ UNCHANGED calls

\* the worker enters a blocking call of the operation op and waits
UnitWaits(i, op, w) ==
  /\ worker' = [worker EXCEPT ![i] = w]
  /\ calls' = calls \cup {op}
  /\ UNCHANGED <<unit, future>>

\* line 231: _analyze_survey_responses(rs, sub_q) up to its backend call,
\* or to its end when it makes none
UnitAnalyze(i, rs) ==
  LET sub_q == sub_questions[i]
  IN IF analyze_raises(sub_q)
     THEN UnitReturns(i, Raised(TRUE, valid_responses(rs)))
     ELSE IF ~analyze_calls_backend(rs, sub_q)
     THEN UnitReturns(i, Returned(i, analyze_survey_responses(rs, sub_q, None),
                                  valid_responses(rs)))
     ELSE UnitWaits(i, "analysis", Waiting("analysis", 0, <<>>, rs, 0))

\* line 276: the b-th batch of the loaded profiles, counted from 1
batch_of(loaded, b) ==
  SubSeq(loaded, (b - 1) * BATCH_SIZE + 1, Min(b * BATCH_SIZE, Len(loaded)))

\* lines 274-285 after b batches: the next batch call, or the return of
\* _query_multiple_twins and the analyzer
UnitBatches(i, loaded, rs, b) ==
  IF b < BatchCount(Len(loaded))
  THEN UnitWaits(i, "batch", Waiting("batch", 0, loaded, rs, b + 1))
  ELSE UnitAnalyze(i, rs)

\* lines 264-272 after k identifiers: the next call of the store, or the
\* batches
UnitLoads(i, loaded, k) ==
  IF k < Len(profile_ids)
  THEN UnitWaits(i, "get_profile_version",
                 Waiting("store", k + 1, loaded, <<>>, 0))
  ELSE UnitBatches(i, loaded, <<>>, 0)

\* lines 229-230: the worker runs process_sub_question(sub_q, i) from its
\* first line into its first blocking call
UnitBegin(i) ==
  /\ pc \in {"submit", "collect", "unwind"}
  /\ unit[i] = "running"
  /\ worker[i].at = "start"
  /\ IF ~Has(sub_questions[i], "question")
     THEN UnitReturns(i, Raised(FALSE, 0))
     ELSE UnitLoads(i, <<>>, 0)
  /\ UNCHANGED unit_rest

\* lines 266-272: the store replies (one of kinds) and the worker runs into
\* its next blocking call
UnitLoaded(i, kinds) ==
  /\ pc \in {"submit", "collect", "unwind"}
  /\ unit[i] = "running"
  /\ worker[i].at = "store"
  /\ \E v \in kinds :
       UnitLoads(i,
                 worker[i].loaded
                   \o load_profiles(<<profile_ids[worker[i].next]>>, <<v>>),
                 worker[i].next)
  /\ UNCHANGED unit_rest

\* lines 279-280: the batch call replies (one of outs[n] for a batch of n)
\* and the worker runs into its next blocking call
UnitBatched(i, outs) ==
  /\ pc \in {"submit", "collect", "unwind"}
  /\ unit[i] = "running"
  /\ worker[i].at = "batch"
  /\ LET batch == batch_of(worker[i].loaded, worker[i].batch_no)
     IN \E out \in outs[Len(batch)] :
          UnitBatches(i, worker[i].loaded,
                      worker[i].responses \o query_batch_of_twins(batch, out),
                      worker[i].batch_no)
  /\ UNCHANGED unit_rest

\* lines 405-431 and 232: the analysis call replies (one of outs) and
\* process_sub_question returns
UnitAnalyzed(i, outs) ==
  /\ pc \in {"submit", "collect", "unwind"}
  /\ unit[i] = "running"
  /\ worker[i].at = "analysis"
  /\ \E out \in outs :
       UnitReturns(i, Returned(i,
                               analyze_survey_responses(worker[i].responses,
                                                        sub_questions[i], out),
                               valid_responses(worker[i].responses)))
  /\ UNCHANGED unit_rest

\* the steps of a unit in a request: the store and the backend answer in
\* any of their ways
UnitStore(i) == UnitLoaded(i, VersionKinds)
UnitBatch(i) ==
  UnitBatched(i, [n \in 1..BATCH_SIZE |-> BatchOutcomes(n)])
UnitAnalysis(i) == UnitAnalyzed(i, AnalysisOutcomes)

\* the panels the selector can return and the sub-questions the decomposer
\* can return
Panels == {get_relevant_profile_ids(st) : st \in StoreOutcomes}
SubQuestions ==
  {FallbackSubQuestions(Query)[i] : i \in 1..3} \cup
  {BackendSubQ(i, shape) : i \in 1..MaxSubQ, shape \in SubQShapes}

IsNone(v) == Has(v, "isNone")

\* line 243 (and 248): all_survey_results[index] = survey_result
store_result(results, index, result) == [results EXCEPT ![index] = result]

\* lines 240-254: the request thread takes a finished future
Collect(i) ==
  /\ pc = "collect"
  /\ unit[i] = "done"
  /\ unit' = [unit EXCEPT ![i] = "collected"]
  /\ out_of_order' = (out_of_order \/ \E j \in 1..(i - 1) : unit[j] # "collected")
  /\ IF ~future[i].exc
     THEN /\ all_survey_results' =
               store_result(all_survey_results, future[i].index,
                            future[i].result)
          /\ writes' = [writes EXCEPT ![future[i].index] = @ + 1]
          /\ UNCHANGED pc
     ELSE IF WellFormed(sub_questions[i])
     THEN /\ all_survey_results' =
               store_result(all_survey_results, i,
                            Degraded(sub_questions[i], "Analysis failed"))
          /\ writes' = [writes EXCEPT ![i] = @ + 1]
          /\ UNCHANGED pc
     ELSE /\ pc' = "unwind"
          /\ UNCHANGED <<all_survey_results, writes>>
  /\ UNCHANGED <<status, response, product, profile_ids, sub_questions,
                 decomposition, future, key_insights, calls, body, env, selection, worker,
                 direct>>

\* a slip: the results are returned once one future was yielded
Join_after_first_result ==
  /\ pc = "collect"
  /\ \E i \in 1..Len(unit) : unit[i] = "collected"
  /\ pc' = "synth"
  /\ UNCHANGED <<status, response, product, pipeline, calls, body, env,
                 selection, direct>>

\* line 256: every future was yielded, the executor is shut down
Join ==
  /\ pc = "collect"
  /\ \A i \in 1..Len(unit) : unit[i] = "collected"
  /\ pc' = "synth"
  /\ UNCHANGED <<status, response, product, pipeline, calls, body, env, selection, direct>>

\* the except clause raised: the executor's exit waits for the units
\* still queued or running, then the exception reaches the catch-all
Unwind ==
  /\ pc = "unwind"
  /\ \A i \in 1..Len(unit) : unit[i] \in {"done", "collected"}
  /\ CatchAll
  /\ UNCHANGED <<product, pipeline, calls, body, env, selection, direct>>

\* lines 72-74
Synthesize ==
  /\ pc = "synth"
  /\ IF digest_raises(all_survey_results)
     THEN CatchAll /\ UNCHANGED <<key_insights, calls>>
     ELSE /\ \E out \in SynthOutcomes :
               key_insights' =
                 generate_overall_insights(all_survey_results, out)
          /\ calls' = calls \cup {"synth"}
          /\ pc' = "respond"
          /\ UNCHANGED <<status, response>>
  /\ UNCHANGED <<product, profile_ids, sub_questions, decomposition,
                 all_survey_results, unit, future, writes, out_of_order,
                 body, env, selection, worker,
                 direct>>

\* lines 76-99
Respond ==
  /\ pc = "respond"
  /\ status' = 200
  /\ response' = full_response(Query, product, profile_ids, key_insights,
                               all_survey_results)
  /\ pc' = "done"
  /\ UNCHANGED <<product, pipeline, calls, body, env, selection, direct>>

Next ==
  \/ Validate
  \/ Select
  \/ Decompose
  \/ Dispatch
  \/ Submit
  \/ \E i \in 1..Len(unit) : UnitStart(i)
  \/ \E i \in 1..Len(unit) : UnitBegin(i)
  \/ \E i \in 1..Len(unit) : UnitStore(i)
  \/ \E i \in 1..Len(unit) : UnitBatch(i)
  \/ \E i \in 1..Len(unit) : UnitAnalysis(i)
  \/ \E i \in 1..Len(unit) : Collect(i)
  \/ Join
  \/ Unwind
  \/ Synthesize
  \/ Respond

Spec == Init /\ [][Next]_vars

\* --------------------------------------- the orchestrator called on its own
\* _process_sub_questions_parallel(profile_ids, sub_questions, ...) for a
\* panel of one and every list of up to MaxPoolSubQ sub-questions of which
\* at most one, the first or the last, lacks a key.  The store finds the
\* profile and the backend answers every call as asked.
PoolSubQuestionLists ==
  {[i \in 1..Len(shapes) |-> BackendSubQ(i, shapes[i])] :
     shapes \in {s \in ShapeLists(MaxPoolSubQ) :
                   \A j \in 2..(Len(s) - 1) : s[j] = "full"}}

PoolPanel == <<1>>

\* the store finds every profile
PoolVersions == {"named"}

\* the backend answers for every persona of the batch, in order
PoolBatchOutcomes(n) == {[kind |-> "answers", answers |-> InOrder(n)]}

PoolAnalysis ==
  [kind |-> "dict",
   dict |-> [top_insight |-> "finding", data_points |-> SomeDataPoints,
             confidence |-> 40]]

PoolInit ==
  /\ pc = "dispatch"
  /\ profile_ids = PoolPanel
  /\ sub_questions \in PoolSubQuestionLists
  /\ status = 0
  /\ response = None
  /\ product = "absent"
  /\ decomposition = "none"
  /\ all_survey_results = <<>>
  /\ unit = <<>>
  /\ future = <<>>
  /\ writes = <<>>
  /\ out_of_order = FALSE
  /\ key_insights = <<>>
  /\ calls = NoCalls
  /\ body = None
  /\ env = None
  /\ selection = "none"
  /\ store = None
  /\ loaded_profiles = <<>>
  /\ responses = <<>>
  /\ batch_no = 0
  /\ failed = {}
  /\ worker = <<>>
  /\ args = None
  /\ backend = None
  /\ returned = None

PoolUnitStore(i) == UnitLoaded(i, PoolVersions)
PoolUnitBatch(i) ==
  UnitBatched(i, [n \in 1..BATCH_SIZE |-> PoolBatchOutcomes(n)])
PoolUnitAnalysis(i) == UnitAnalyzed(i, {PoolAnalysis})

\* the except clause raised: the executor's exit (line 234) waits for the
\* units still queued or running, then the exception leaves
\* _process_sub_questions_parallel for its caller; nothing is sent
PoolUnwind ==
  /\ pc = "unwind"
  /\ \A i \in 1..Len(unit) : unit[i] \in {"done", "collected"}
  /\ pc' = "done"
  /\ UNCHANGED <<status, response, product, pipeline, calls, body, env,
                 selection, direct>>

PoolNext ==
  \/ Dispatch
  \/ Submit
  \/ \E i \in 1..Len(unit) : UnitStart(i)
  \/ \E i \in 1..Len(unit) : UnitBegin(i)
  \/ \E i \in 1..Len(unit) : PoolUnitStore(i)
  \/ \E i \in 1..Len(unit) : PoolUnitBatch(i)
  \/ \E i \in 1..Len(unit) : PoolUnitAnalysis(i)
  \/ \E i \in 1..Len(unit) : Collect(i)
  \/ Join
  \/ PoolUnwind

\* The executor's workers take queued work as soon as one of them is free,
\* and a unit whose collaborators answer comes to its end.
PoolSpec ==
  /\ PoolInit
  /\ [][PoolNext]_vars
  /\ WF_vars(Dispatch)
  /\ WF_vars(Submit)
  /\ \A i \in 1..MaxPoolSubQ :
       /\ WF_vars(i <= Len(unit) /\ UnitStart(i))
       /\ WF_vars(i <= Len(unit) /\ UnitBegin(i))
       /\ WF_vars(i <= Len(unit) /\ PoolUnitStore(i))
       /\ WF_vars(i <= Len(unit) /\ PoolUnitBatch(i))
       /\ WF_vars(i <= Len(unit) /\ PoolUnitAnalysis(i))

\* ------------------------------------------- the selector called on its own
\* _get_relevant_profile_ids(supabase, product) for a store that fails or
\* returns up to MaxRows records, each qualifying ("food") or not ("other"),
\* of which at most one is odd: its attribute bag is null, or it has no
\* profile_id (0)
OddKinds == {"null", "noid"}

StoreRows(n, food, odd, kind) ==
  [i \in 1..n |->
     [profile_id |-> IF i = odd /\ kind = "noid" THEN 0 ELSE i,
      bag |-> IF i = odd /\ kind = "null" THEN "null"
              ELSE IF i \in food THEN "food" ELSE "other"]]

SelectorInit ==
  /\ pc = "select"
  /\ \/ store = [raises |-> TRUE, rows |-> <<>>]
     \/ \E n \in 0..MaxRows :
          \E food \in SUBSET (1..n), odd \in 0..n, kind \in OddKinds :
             store = [raises |-> FALSE,
                      rows |-> StoreRows(n, food, odd, kind)]
  /\ product = "pickles"
  /\ status = 0
  /\ response = None
  /\ profile_ids = <<>>
  /\ sub_questions = <<>>
  /\ decomposition = "none"
  /\ all_survey_results = <<>>
  /\ unit = <<>>
  /\ future = <<>>
  /\ writes = <<>>
  /\ out_of_order = FALSE
  /\ key_insights = <<>>
  /\ calls = NoCalls
  /\ body = None
  /\ env = None
  /\ selection = "none"
  /\ loaded_profiles = <<>>
  /\ responses = <<>>
  /\ batch_no = 0
  /\ failed = {}
  /\ worker = <<>>
  /\ args = None
  /\ backend = None
  /\ returned = None

\* lines 125-161
SelectorCall ==
  /\ pc = "select"
  /\ profile_ids' = get_relevant_profile_ids(store)
  /\ selection' = selected_by(store)
  /\ calls' = calls \cup {"get_active_profiles"}
  /\ pc' = "selected"
  /\ UNCHANGED <<status, response, product, sub_questions, decomposition,
                 all_survey_results, unit, future, writes, out_of_order,
                 key_insights, body, env, worker,
                 direct>>

SelectorNext == SelectorCall

SelectorSpec == SelectorInit /\ [][SelectorNext]_vars

\* --------------------------------- _query_multiple_twins called on its own
\* _query_multiple_twins(profile_ids, query, ...) for a panel of up to
\* MaxTwins identifiers, step by step: the profiles are loaded, then one
\* batch is queried per step.  The store finds every profile but at most
\* one (absent, or found without a person_name).
TwinVersions(n, odd, kind) == [i \in 1..n |-> IF i = odd THEN kind ELSE "named"]

\* what the batch call can do: as in the pipeline, or a reply that is not
\* an object, or one whose person_number is not a number
TwinBatchOutcomes(n) ==
  BatchOutcomes(n) \cup
  {[kind |-> "nondict", answers |-> <<>>],
   [kind |-> "answers", answers |-> <<Answer("str", 0, TRUE)>>]}

ResponderInit ==
  /\ pc = "load"
  /\ \E n \in 0..MaxTwins : profile_ids = [i \in 1..n |-> i]
  /\ product = "absent"
  /\ status = 0
  /\ response = None
  /\ sub_questions = <<>>
  /\ decomposition = "none"
  /\ all_survey_results = <<>>
  /\ unit = <<>>
  /\ future = <<>>
  /\ writes = <<>>
  /\ out_of_order = FALSE
  /\ key_insights = <<>>
  /\ calls = NoCalls
  /\ body = None
  /\ env = None
  /\ selection = "none"
  /\ store = None
  /\ loaded_profiles = <<>>
  /\ responses = <<>>
  /\ batch_no = 0
  /\ failed = {}
  /\ worker = <<>>
  /\ args = None
  /\ backend = None
  /\ returned = None

twin_rest == <<status, response, product, sub_questions, decomposition,
               all_survey_results, unit, future, writes, out_of_order,
               key_insights, body, env, selection, store, worker, args,
               backend, returned>>

\* lines 264-272
LoadProfiles ==
  /\ pc = "load"
  /\ \E odd \in 0..Len(profile_ids), kind \in {"absent", "unnamed"} :
       loaded_profiles' =
         load_profiles(profile_ids, TwinVersions(Len(profile_ids), odd, kind))
  /\ calls' = IF profile_ids = <<>> THEN calls
              ELSE calls \cup {"get_profile_version"}
  /\ pc' = "batches"
  /\ UNCHANGED <<profile_ids, responses, batch_no, failed, twin_rest>>

\* line 276: the batch_no-th batch, counted from 1
profile_batch(b) ==
  SubSeq(loaded_profiles, (b - 1) * BATCH_SIZE + 1,
         Min(b * BATCH_SIZE, Len(loaded_profiles)))

\* lines 278-280: one turn of the loop; failed keeps, for a batch whose call
\* failed, where its responses start and end
QueryBatch ==
  /\ pc = "batches"
  /\ batch_no < BatchCount(Len(loaded_profiles))
  /\ LET batch == profile_batch(batch_no + 1)
     IN \E out \in TwinBatchOutcomes(Len(batch)) :
          LET batch_responses == query_batch_of_twins(batch, out)
          IN /\ responses' = responses \o batch_responses
             /\ failed' =
                  IF BatchFails(out, Len(batch))
                  THEN failed \cup
                         {[batch |-> batch_no + 1, from |-> Len(responses),
                           to |-> Len(responses) + Len(batch_responses)]}
                  ELSE failed
  /\ batch_no' = batch_no + 1
  /\ calls' = calls \cup {"batch"}
  /\ UNCHANGED <<pc, profile_ids, loaded_profiles, twin_rest>>

\* line 285
ReturnResponses ==
  /\ pc = "batches"
  /\ batch_no = BatchCount(Len(loaded_profiles))
  /\ pc' = "returned"
  /\ UNCHANGED <<profile_ids, loaded_profiles, responses, batch_no, failed,
                 calls, twin_rest>>

ResponderNext ==
  \/ LoadProfiles
  \/ QueryBatch
  \/ ReturnResponses

ResponderSpec == ResponderInit /\ [][ResponderNext]_vars

\* ------------------------------------------------ methods called on their own
\* everything but pc, calls, args, backend and returned
call_rest == <<status, response, product, profile_ids, sub_questions,
               decomposition, all_survey_results, unit, future, writes,
               out_of_order, key_insights, body, env, selection, store,
               loaded_profiles, responses, batch_no, failed, worker>>

\* the state before the call of a method with the arguments given
CallInit(method_args) ==
  /\ pc = "call"
  /\ args = method_args
  /\ backend = None
  /\ returned = None
  /\ status = 0
  /\ response = None
  /\ product = "absent"
  /\ profile_ids = <<>>
  /\ sub_questions = <<>>
  /\ decomposition = "none"
  /\ all_survey_results = <<>>
  /\ unit = <<>>
  /\ future = <<>>
  /\ writes = <<>>
  /\ out_of_order = FALSE
  /\ key_insights = <<>>
  /\ calls = NoCalls
  /\ body = None
  /\ env = None
  /\ selection = "none"
  /\ store = None
  /\ loaded_profiles = <<>>
  /\ responses = <<>>
  /\ batch_no = 0
  /\ failed = {}
  /\ worker = <<>>

\* the value that stands for "the method raised"
RaisedValue == [raised |-> TRUE]

\* ---- _query_batch_of_twins(profiles, query, api_key) for a batch of up to
\* MaxBatch personas whose identifiers differ from their positions
Personas(n) ==
  [i \in 1..n |-> [profile_id |-> 10 + i, person_name |-> PersonNames[i]]]

\* one answer of the reply, by its person_number: an integer from -1 to
\* n + 1 (the first position also without a 'response'), true or false,
\* the floats 0.5, 1.0, 1.5 and n + 1.5, none, or one that is not a number
AnswerKinds(n) ==
  {Answer("int", p, TRUE) : p \in (-1)..(n + 1)} \cup
  {Answer("int", 1, FALSE)} \cup
  {Answer("bool", b, TRUE) : b \in {0, 1}} \cup
  {Answer("float", h, TRUE) : h \in {1, 2, 3, 2 * n + 3}} \cup
  {Answer("missing", 0, TRUE), Answer("str", 0, TRUE)}

BatchInit == \E n \in 1..MaxBatch : CallInit([profiles |-> Personas(n)])

\* the backend replied out and the method returns
BatchReplies(out) ==
  /\ backend' = out
  /\ returned' = query_batch_of_twins(args.profiles, out)

\* lines 287-353: the call fails, or replies a list of up to MaxAnswers
\* answers
BatchCall ==
  /\ pc = "call"
  /\ \/ \E k \in {"raise", "unparseable", "nondict", "nokey"} :
          BatchReplies([kind |-> k, answers |-> <<>>])
     \/ \E k \in 0..MaxAnswers :
          \E a \in [1..k -> AnswerKinds(Len(args.profiles))] :
            BatchReplies([kind |-> "answers", answers |-> a])
  /\ calls' = calls \cup {"batch"}
  /\ pc' = "returned"
  /\ UNCHANGED <<args, call_rest>>

BatchNext == BatchCall

BatchSpec == BatchInit /\ [][BatchNext]_vars

\* ---- _analyze_survey_responses(responses, sub_question, api_key) for up
\* to MaxResponses persona responses, each valid or error-flagged, and
\* every sub-question the decomposer can return
PersonaResponse(i, error) ==
  [profile_id |-> i, person_name |-> PersonNames[i],
   response |-> IF error THEN "Error generating response" ELSE "answer",
   error |-> error]

AnalyzerInit ==
  \E k \in 0..MaxResponses :
    \E flags \in [1..k -> BOOLEAN], sub_question \in SubQuestions :
      CallInit([responses |-> [i \in 1..k |-> PersonaResponse(i, flags[i])],
                sub_question |-> sub_question])

\* lines 355-431; backend stays None when messages.create is not reached
AnalyzerCall ==
  /\ pc = "call"
  /\ IF analyze_calls_backend(args.responses, args.sub_question)
     THEN /\ \E out \in AnalysisOutcomes :
               /\ backend' = out
               /\ returned' = analyze_survey_responses(args.responses,
                                                       args.sub_question, out)
          /\ calls' = calls \cup {"analysis"}
     ELSE /\ returned' =
               IF analyze_raises(args.sub_question) THEN RaisedValue
               ELSE analyze_survey_responses(args.responses,
                                             args.sub_question, None)
          /\ UNCHANGED <<backend, calls>>
  /\ pc' = "returned"
  /\ UNCHANGED <<args, call_rest>>

AnalyzerNext == AnalyzerCall

AnalyzerSpec == AnalyzerInit /\ [][AnalyzerNext]_vars

\* ---- _generate_overall_insights(survey_results, original_query, api_key)
\* for up to MaxResults survey results, the i-th about the i-th backend
\* sub-question: one of the two degraded results, a full analysis, or an
\* analysis without 'top_insight'
SurveyResultKinds == {"no_data", "unavailable", "full", "no_top"}

SurveyResult(i, kind) ==
  LET sub_q == BackendSubQ(i, "full")
      named == "question" :> sub_q.question
               @@ "insight_type" :> sub_q.insight_type
  IN CASE kind = "no_data" -> Degraded(sub_q, "Insufficient data")
       [] kind = "unavailable" ->
            Degraded(sub_q, "Analysis temporarily unavailable")
       [] kind = "full" ->
            named @@ [top_insight |-> "finding",
                      data_points |-> SomeDataPoints, confidence |-> 40]
       [] kind = "no_top" ->
            named @@ [data_points |-> SomeDataPoints, confidence |-> 40]

SynthInit ==
  \E n \in 0..MaxResults :
    \E kinds \in [1..n -> SurveyResultKinds] :
      CallInit([survey_results |-> [i \in 1..n |-> SurveyResult(i, kinds[i])]])

\* lines 433-486; backend stays None when the digest raises before the call
SynthCall ==
  /\ pc = "call"
  /\ IF digest_raises(args.survey_results)
     THEN /\ returned' = RaisedValue
          /\ UNCHANGED <<backend, calls>>
     ELSE /\ \E out \in SynthOutcomes :
               /\ backend' = out
               /\ returned' = generate_overall_insights(args.survey_results,
                                                        out)
          /\ calls' = calls \cup {"synth"}
  /\ pc' = "returned"
  /\ UNCHANGED <<args, call_rest>>

SynthNext == SynthCall

SynthSpec == SynthInit /\ [][SynthNext]_vars

\* ------------------------------------------------------------------- claims
FiveFields == {"question", "insight_type", "top_insight", "data_points",
               "confidence"}

\* the request ended with the full (non-reduced) 200 response
FullResponse == status = 200 /\ Has(response, "survey_results")

\* a unit whose future is finished
Finished(i) == unit[i] \in {"done", "collected"}

\* C1: once the orchestrator has ended, whatever the order in which the
\* units completed and whichever of them failed, the list has the length
\* of the sub-question list, no slot is None, and the result at every
\* index i carries the question and insight_type of sub_questions[i].
C1_ResultsAligned ==
  (Len(unit) > 0 /\ pc \in {"synth", "respond", "done"}) =>
    /\ Len(all_survey_results) = Len(sub_questions)
    /\ \A i \in 1..Len(sub_questions) :
         /\ ~IsNone(all_survey_results[i])
         /\ WellFormed(sub_questions[i])
         /\ Has(all_survey_results[i], "question")
         /\ Has(all_survey_results[i], "insight_type")
         /\ all_survey_results[i].question = sub_questions[i].question
         /\ all_survey_results[i].insight_type = sub_questions[i].insight_type

\* C2: when a unit raises, the slot of that unit gets top_insight
\* "Analysis failed", data_points [] and confidence 0, and the request
\* still ends with status 200.
C2_UnitFailureIsolated ==
  /\ \A i \in 1..Len(unit) :
       (unit[i] = "collected" /\ future[i].exc) =>
         /\ Has(all_survey_results[i], "top_insight")
         /\ all_survey_results[i].top_insight = "Analysis failed"
         /\ all_survey_results[i].data_points = <<>>
         /\ all_survey_results[i].confidence = 0
  /\ (pc = "done" /\ \E i \in 1..Len(unit) : Finished(i) /\ future[i].exc)
       => status = 200

\* C3: a valid request with a non-empty panel ends with status 200 and
\* every entry of survey_results has the five fields, whatever the backend
\* returned at any stage.
C3_AlwaysWellFormed ==
  (pc = "done" /\ profile_ids # <<>>) =>
    /\ status = 200
    /\ Has(response, "survey_results")
    /\ \A i \in 1..Len(response.survey_results) :
         FiveFields \subseteq DOMAIN response.survey_results[i]

\* C4: every request that ends with the full 200 response had exactly 3
\* sub-questions and has exactly 3 survey_results.
C4_ExactlyThree ==
  FullResponse =>
    /\ Len(sub_questions) = 3
    /\ Len(response.survey_results) = 3

\* C5: when the decomposition call fails or its output cannot be parsed,
\* the sub-questions are the three templates built from the question
\* (preferences, concerns, usage) and the request ends with status 200.
C5_FallbackCompletes ==
  decomposition \in {"raise", "unparseable", "nondict"} =>
    /\ Len(sub_questions) = 3
    /\ sub_questions = FallbackSubQuestions(Query)
    /\ sub_questions[1].insight_type = "preferences"
    /\ sub_questions[2].insight_type = "concerns"
    /\ sub_questions[3].insight_type = "usage"
    /\ (pc = "done" => status = 200)

\* the selector was called and returned an empty panel
EmptyPanel ==
  pc = "done" /\ "get_active_profiles" \in calls /\ profile_ids = <<>>

\* C6: a valid request whose panel is empty ends with status 200 and the
\* reduced shape: both counters 0, confidence 0, a non-empty narrative,
\* and neither survey_results nor key_insights.
C6_ReducedResponse ==
  EmptyPanel =>
    /\ status = 200
    /\ DOMAIN response = {"response", "profiles_analyzed", "product",
                          "total_twins_queried", "confidence"}
    /\ response.profiles_analyzed = 0
    /\ response.total_twins_queried = 0
    /\ response.confidence = 0
    /\ Len(response.response) > 0
    /\ response.product = product

C6_Witness ==
  /\ EmptyPanel
  /\ status = 200
  /\ response.product = "pickles"
  /\ calls = {"get_active_profiles"}

\* C7: when the analyzer is entered with no valid response it returns
\* "Insufficient data", data_points [] and confidence 0.
C7_InsufficientData ==
  \A i \in 1..Len(unit) :
    (Finished(i) /\ future[i].analyzed /\ future[i].valid = 0) =>
      /\ ~future[i].exc
      /\ future[i].result.top_insight = "Insufficient data"
      /\ future[i].result.data_points = <<>>
      /\ future[i].result.confidence = 0

\* the sum of r.get('confidence', 0) over the first n entries
RECURSIVE ConfidenceSum(_, _)
ConfidenceSum(results, n) ==
  IF n = 0 THEN 0
  ELSE ConfidenceSum(results, n - 1)
       + (IF Has(results[n], "confidence") THEN results[n].confidence ELSE 0)

\* C8: in the full 200 response confidence is the floor of the sum of the
\* entries' confidence values over their number, and 0 when there is none.
C8_FloorAverage ==
  FullResponse =>
    LET n == Len(response.survey_results)
        total == ConfidenceSum(response.survey_results, n)
        c == response.confidence
    IN IF n = 0 THEN c = 0
       ELSE c * n <= total /\ total < (c + 1) * n

\* three results, one of them degraded, whose sum is not a multiple of 3
C8_Witness ==
  /\ FullResponse
  /\ Len(response.survey_results) = 3
  /\ ConfidenceSum(response.survey_results, 3) % 3 # 0
  /\ \E i \in 1..3 : /\ Has(response.survey_results[i], "confidence")
                     /\ response.survey_results[i].confidence = 0
  /\ response.confidence > 0

\* C9: in every 200 response the confidence, and the confidence of every
\* entry of survey_results, is an integer from 0 to 100.
C9_ConfidenceRange ==
  status = 200 =>
    /\ response.confidence \in 0..100
    /\ Has(response, "survey_results") =>
         \A i \in 1..Len(response.survey_results) :
           /\ Has(response.survey_results[i], "confidence")
           /\ response.survey_results[i].confidence \in 0..100

\* C10: in the full 200 response key_insights has at most 3 entries.
C10_AtMostThreeInsights ==
  FullResponse => Len(response.key_insights) <= 3

\* the body lacks a product or a question, or names a product that is not
\* in the enumeration
ClientError ==
  \/ body.kind # "object"
  \/ Falsy(body.product)
  \/ Falsy(body.question)
  \/ body.product \notin {"pickles", "oats"}

\* C11: every request whose body lacks a product or a question, or whose
\* product is not pickles or oats, ends with status 400 and no store or
\* backend call, also for an empty body and for JSON that is not an object.
C11_ClientErrorRejected ==
  (pc = "done" /\ ClientError) => (status = 400 /\ calls = NoCalls)

\* one of the three credentials is not set
CredentialMissing ==
  ~env.ANTHROPIC_API_KEY \/ ~env.SUPABASE_URL \/ ~env.SUPABASE_ANON_KEY

\* C12, as stated: a request received while a credential is missing ends
\* with a server-error status and makes no store or backend call.
C12_MissingCredentialIs500 ==
  (pc = "done" /\ CredentialMissing) => (status = 500 /\ calls = NoCalls)

\* C12, amended: a request received while a credential is missing makes no
\* store or backend call; it ends with status 500 when its body has a
\* product and a question and the product is in the enumeration, and with
\* the client error 400 or the status 500 otherwise.
C12_MissingCredentialRejected ==
  (pc # "start" /\ CredentialMissing) =>
    /\ pc = "done"
    /\ calls = NoCalls
    /\ status \in {400, 500}
    /\ ~ClientError => status = 500

\* a valid request rejected because only the store URL is missing
C12_Witness ==
  /\ pc = "done"
  /\ ~ClientError
  /\ env.ANTHROPIC_API_KEY /\ env.SUPABASE_ANON_KEY /\ ~env.SUPABASE_URL
  /\ status = 500
  /\ calls = NoCalls

\* C13: in the full 200 response total_twins_queried and profiles_analyzed
\* both equal the number of identifiers the selector returned, whatever
\* happened to the personas.
C13_CountsArePanelSize ==
  FullResponse =>
    /\ response.total_twins_queried = Len(profile_ids)
    /\ response.profiles_analyzed = Len(profile_ids)

\* a panel of two, a sub-question for which no persona gave a valid
\* response, and both counters 2
C13_Witness ==
  /\ FullResponse
  /\ Len(profile_ids) = 2
  /\ response.total_twins_queried = 2
  /\ \E i \in 1..Len(response.survey_results) :
       /\ Has(response.survey_results[i], "top_insight")
       /\ response.survey_results[i].top_insight = "Insufficient data"

\* C14: the result stored at index i is a function of the outcomes of
\* sub-question i alone.  The future of unit i holds what those outcomes
\* give, so in every run that has left the orchestrator the slot of a unit
\* that returned holds that unit's result, whatever the other units did.
C14_SlotDependsOnOwnUnit ==
  pc \in {"synth", "respond", "done"} =>
    \A i \in 1..Len(unit) :
      (Finished(i) /\ ~future[i].exc) =>
        all_survey_results[i] = future[i].result

\* C16: no slot is ever written twice, and once the orchestrator run is
\* over every slot has been written exactly once, the one of unit i by
\* unit i's result.
C16_EachSlotWrittenOnce ==
  /\ \A i \in 1..Len(writes) : writes[i] <= 1
  /\ pc \in {"synth", "respond", "done"} =>
       \A i \in 1..Len(writes) : writes[i] = 1

ReducedKeys == {"response", "profiles_analyzed", "product",
                "total_twins_queried", "confidence"}

\* C19: when the store call fails, the store has no active profile or an
\* inspected record makes the scan raise, the selector returns the empty
\* list and the request ends with status 200 and the reduced response,
\* never with an error.
C19_SelectorNeverRaises ==
  selection \in {"store_failed", "no_profiles", "malformed"} =>
    /\ profile_ids = <<>>
    /\ pc = "done"
    /\ status = 200
    /\ DOMAIN response = ReducedKeys
    /\ calls = {"get_active_profiles"}

\* a record with a null attribute bag was inspected
C19_Witness ==
  /\ selection = "malformed"
  /\ status = 200
  /\ response = reduced_response("pickles")

Submitted(i) == i <= Len(unit) /\ unit[i] = "queued"
HasRun(i) == i <= Len(unit) /\ unit[i] \in {"running", "done", "collected"}

\* C15: at every moment at most 3 units are executing, whatever the number
\* of sub-questions, and every submitted unit eventually runs.
C15_BoundedPool ==
  /\ [](Cardinality(Running) <= 3)
  /\ \A i \in 1..MaxPoolSubQ : Submitted(i) ~> HasRun(i)

\* four units submitted, three executing and the fourth waiting
C15_Witness ==
  /\ Len(unit) >= 4
  /\ Cardinality(Running) = 3
  /\ unit[4] = "queued"

\* the first ten active profiles, and those of them that qualify
FirstTen == SubSeq(store.rows, 1, Min(10, Len(store.rows)))
Qualifying == SelectSeq(FirstTen, LAMBDA p : p.bag = "food")

\* the records the scan reaches: the first ten, or those up to the fifth
\* qualifying one
Reached ==
  LET stops == {k \in 1..Len(FirstTen) :
                  /\ FirstTen[k].bag = "food"
                  /\ Cardinality({j \in 1..k : FirstTen[j].bag = "food"}) = 5}
  IN IF stops = {} THEN FirstTen
     ELSE SubSeq(FirstTen, 1, CHOOSE k \in stops : TRUE)

NullReached == \E i \in 1..Len(Reached) : Reached[i].bag = "null"

FirstQualifying ==
  [i \in 1..Min(5, Len(Qualifying)) |-> Qualifying[i].profile_id]

\* C17, as stated: when one of the first 10 active profiles qualifies, the
\* selector returns the identifiers of the first min(5, number qualifying)
\* qualifying profiles among the first 10, in store order.
C17_FirstFiveQualifying ==
  (pc = "selected" /\ Qualifying # <<>>) =>
    /\ profile_ids = FirstQualifying
    /\ Len(profile_ids) <= 5

\* C17, amended: the same when no record the scan reaches has a null
\* attribute bag; when one has, the selector returns the empty list.
C17_FirstFiveQualifyingUnlessNull ==
  (pc = "selected" /\ Qualifying # <<>>) =>
    /\ profile_ids = (IF NullReached THEN <<>> ELSE FirstQualifying)
    /\ Len(profile_ids) <= 5

\* eleven profiles, the first not qualifying, the eleventh qualifying, more
\* than five qualifying among the first ten
C17_Witness ==
  /\ pc = "selected"
  /\ Len(store.rows) = 11
  /\ store.rows[1].bag = "other"
  /\ store.rows[11].bag = "food"
  /\ Len(Qualifying) > 5
  /\ ~NullReached
  /\ Len(profile_ids) = 5
  /\ profile_ids[1] # 1

\* the first five active profiles
FirstFive == SubSeq(store.rows, 1, Min(5, Len(store.rows)))

NoneQualifies == ~store.raises /\ store.rows # <<>> /\ Qualifying = <<>>

\* C18, as stated: when there is an active profile and no inspected one
\* qualifies, the selector returns one identifier for each of the first 5
\* active profiles, none filtered out.
C18_FallbackFirstFive ==
  (pc = "selected" /\ NoneQualifies) =>
    /\ Len(profile_ids) = Len(FirstFive)
    /\ \A i \in 1..Len(profile_ids) : profile_ids[i] = FirstFive[i].profile_id

\* C18, amended: it returns, in order, the identifiers of those of the first
\* 5 active profiles that have one, and the empty list when one of the first
\* 10 has a null attribute bag.
C18_FallbackFirstFiveWithId ==
  (pc = "selected" /\ NoneQualifies) =>
    LET with_id == SelectSeq(FirstFive, LAMBDA p : p.profile_id # 0)
    IN profile_ids =
         (IF NullReached THEN <<>>
          ELSE [i \in 1..Len(with_id) |-> with_id[i].profile_id])

\* seven profiles, none qualifying, one of the first five without an
\* identifier: four identifiers are returned
C18_Witness ==
  /\ pc = "selected"
  /\ NoneQualifies
  /\ Len(store.rows) = 7
  /\ \E i \in 1..5 : store.rows[i].profile_id = 0
  /\ Len(profile_ids) = 4

\* the batch call raised, or its output is malformed: not JSON, not an
\* object, an object without 'responses', or a list of answers of which
\* one has a person_number that is not a number
MalformedBatch ==
  /\ pc = "returned"
  /\ \/ backend.kind \in {"raise", "unparseable", "nondict", "nokey"}
     \/ /\ backend.kind = "answers"
        /\ \E i \in 1..Len(backend.answers) : backend.answers[i].pn = "str"

\* C20: when the call of a batch raises or its output is malformed, the
\* batch responder returns exactly one response per persona of the batch,
\* flagged as an error, with the persona's own profile_id and person_name
\* and a text describing the error.
C20_MalformedBatchFlagged ==
  MalformedBatch =>
    /\ Len(returned) = Len(args.profiles)
    /\ \A i \in 1..Len(returned) :
         /\ returned[i].error = TRUE
         /\ returned[i].profile_id = args.profiles[i].profile_id
         /\ returned[i].person_name = args.profiles[i].person_name
         /\ returned[i].response = "Error generating response"

\* the reply of the batch call is an object with a list of answers
Answered == pc = "returned" /\ backend.kind = "answers"

\* the answers whose person_number is an integer (or true, which is 1)
\* from 1 to the batch size, each attributed to the persona at that position
KeptAnswers ==
  SelectSeq(backend.answers,
            LAMBDA a : a.pn \in {"int", "bool"} /\ 1 <= a.num
                       /\ a.num <= Len(args.profiles))
Attributed ==
  [i \in 1..Len(KeptAnswers) |->
     [profile_id |-> args.profiles[KeptAnswers[i].num].profile_id,
      person_name |-> args.profiles[KeptAnswers[i].num].person_name,
      response |-> IF KeptAnswers[i].text THEN "answer"
                   ELSE "No response provided",
      error |-> FALSE]]

\* an answer's person_number is not a number, or is a float f with
\* 1 <= f < n + 1 for the batch of n
MappingRaises ==
  \E i \in 1..Len(backend.answers) :
     LET a == backend.answers[i]
     IN \/ a.pn = "str"
        \/ a.pn = "float" /\ 2 <= a.num
                          /\ a.num < 2 * (Len(args.profiles) + 1)

AllFlagged ==
  /\ Len(returned) = Len(args.profiles)
  /\ \A i \in 1..Len(returned) :
       /\ returned[i].error
       /\ returned[i].profile_id = args.profiles[i].profile_id
       /\ returned[i].person_name = args.profiles[i].person_name

\* C21, as stated: an answer is kept and attributed to the p-th persona
\* exactly when its person_number p is from 1 to n; the others are
\* discarded and do not affect the answers kept.
C21_KeptExactlyInRange == Answered => returned = Attributed

\* C21, amended: an answer is kept and attributed to the p-th persona
\* exactly when its person_number is an integer p (true counting as 1,
\* false and a missing one as 0) from 1 to n, and the others, a float
\* outside 1 <= f < n + 1 among them, are discarded without affecting the
\* answers kept; unless some person_number is not a number or is a float
\* f with 1 <= f < n + 1: then no answer is kept and every persona of the
\* batch is error-flagged.
C21_KeptInRangeUnlessMappingRaises ==
  Answered => IF MappingRaises THEN AllFlagged ELSE returned = Attributed

\* a reply with the position 3.5, past the batch of two, then true, then
\* 2: the first is discarded, the other two are kept
C21_Witness ==
  /\ Answered
  /\ Len(args.profiles) = 2
  /\ Len(backend.answers) = 3
  /\ backend.answers[1].pn = "float" /\ backend.answers[1].num = 7
  /\ backend.answers[2].pn = "bool" /\ backend.answers[2].num = 1
  /\ backend.answers[3].pn = "int" /\ backend.answers[3].num = 2
  /\ Len(returned) = 2
  /\ returned[1].profile_id = 11
  /\ returned[2].profile_id = 12

\* C22: _query_multiple_twins returns exactly one response per identifier
\* of the panel.
C22_OnePerPersona ==
  pc = "returned" =>
    /\ Len(responses) = Len(profile_ids)
    /\ \A k \in 1..Len(profile_ids) :
         Cardinality({i \in 1..Len(responses) :
                        responses[i].profile_id = profile_ids[k]}) = 1

\* C27: the list returned by _query_batch_of_twins never mixes flagged and
\* unflagged entries, and when an answer's person_number makes the mapping
\* raise (it is not a number, or is a float that passes the range test)
\* the answers already mapped are dropped and every persona is flagged.
C27_AllOrNothing ==
  pc = "returned" =>
    /\ \A i, j \in 1..Len(returned) : returned[i].error = returned[j].error
    /\ (backend.kind = "answers" /\ MappingRaises) => AllFlagged

\* the first answer maps to the first persona, the second has a
\* person_number that is not a number
C27_Witness ==
  /\ Answered
  /\ Len(args.profiles) = 2
  /\ Len(backend.answers) = 2
  /\ backend.answers[1].pn = "int" /\ backend.answers[1].num = 1
  /\ backend.answers[2].pn = "str"
  /\ AllFlagged

\* the backend call of the method was made and raised, or its output was
\* not JSON or not an object
BackendFailed ==
  /\ pc = "returned"
  /\ ~IsNone(backend)
  /\ backend.kind \in {"raise", "unparseable", "nondict"}

\* C23: when there is a valid persona response and the analysis call raises
\* or its output cannot be parsed into a record, the analyzer returns
\* "Analysis temporarily unavailable", no data points and confidence 0 with
\* the sub-question's question and insight_type, and does not raise.
C23_AnalysisUnavailable ==
  (BackendFailed /\ \E i \in 1..Len(args.responses) : ~args.responses[i].error)
    => returned = [question |-> args.sub_question.question,
                   insight_type |-> args.sub_question.insight_type,
                   top_insight |-> "Analysis temporarily unavailable",
                   data_points |-> <<>>,
                   confidence |-> 0]

\* one error-flagged and one valid response, and a reply that is JSON but
\* not an object
C23_Witness ==
  /\ BackendFailed
  /\ backend.kind = "nondict"
  /\ Len(args.responses) = 2
  /\ args.responses[1].error /\ ~args.responses[2].error
  /\ returned.top_insight = "Analysis temporarily unavailable"
  /\ returned.insight_type = "concerns"

\* C24: when the synthesis call fails or its output cannot be parsed, the
\* synthesizer returns the top_insight of the first min(3, n) of the n
\* survey results, in order, and does not raise.
C24_SynthesisFallback ==
  BackendFailed =>
    LET n == Len(args.survey_results)
    IN returned = [i \in 1..(IF n < 3 THEN n ELSE 3) |->
                     args.survey_results[i].top_insight]

\* four results with different findings, of which the first three are
\* returned
C24_Witness ==
  /\ BackendFailed
  /\ Len(args.survey_results) = 4
  /\ returned = <<"Insufficient data", "finding",
                  "Analysis temporarily unavailable">>

\* every unit has finished and was collected, and every slot is filled
AllUnitsDone ==
  /\ \A i \in 1..Len(unit) : unit[i] = "collected"
  /\ Len(all_survey_results) = Len(sub_questions)
  /\ \A i \in 1..Len(all_survey_results) : ~IsNone(all_survey_results[i])

\* the synthesizer is entered only after every unit, and no unit starts
\* before the decomposer has returned
StagesOrdered ==
  /\ (pc \in {"synth", "respond"} \/ "synth" \in calls) => AllUnitsDone
  /\ (\E i \in 1..Len(unit) : unit[i] \notin {"unsubmitted", "queued"}) =>
       ("decompose" \in calls /\ decomposition # "none")
  /\ Len(unit) > 0 => "decompose" \in calls

\* C25, as stated: the stages are strictly ordered, and the 200 response is
\* sent only after the synthesizer has returned.
C25_StagesThenResponse ==
  /\ StagesOrdered
  /\ status = 200 => "synth" \in calls

\* C25, amended: the stages are strictly ordered, and the full 200 response
\* is sent only after the synthesizer has returned; the reduced 200
\* response of an empty panel is sent without the synthesizer having run.
C25_StagesThenFullResponse ==
  /\ StagesOrdered
  /\ FullResponse => ("synth" \in calls /\ AllUnitsDone)
  /\ (status = 200 /\ ~FullResponse) => "synth" \notin calls

\* three units that completed out of order, then the synthesizer, then the
\* full response
C25_Witness ==
  /\ pc = "done"
  /\ FullResponse
  /\ Len(unit) = 3
  /\ out_of_order
  /\ "synth" \in calls
  /\ Len(response.key_insights) = 3

\* C26: when the selector returns an empty panel the only collaborator
\* call of the request is get_active_profiles.
C26_OnlyStoreListing ==
  (selection # "none" /\ profile_ids = <<>>) =>
    calls = {"get_active_profiles"}

\* the store call failed and the request ended with one call made
C26_Witness ==
  /\ pc = "done"
  /\ selection = "store_failed"
  /\ profile_ids = <<>>
  /\ status = 200
  /\ calls = {"get_active_profiles"}

====
